---------------------------- MODULE Spec2Model ----------------------------
(***************************************************************************)
(* Change Scheduler: the scheduling engine.                                *)
(*                                                                         *)
(* Part I models scheduler/task_manager.py (class TaskManager): the        *)
(* Pending Set scheduled_tasks, the Due-Time Queue task_queue, the engine  *)
(* lock file_lock, the scheduling loop, the status-checker (sweep) loop    *)
(* and the callers of add_task / remove_task.                              *)
(*                                                                         *)
(* Time is counted in whole seconds.  An implementation_time string is     *)
(* represented by the number of seconds parse_datetime(..).timestamp()     *)
(* yields for it; change numbers are represented by their rank in string   *)
(* order, which is the order the queue's tuples compare them in.           *)
(***************************************************************************)
EXTENDS Integers, Sequences, FiniteSets, Bags, TLC

\* ---------------------------------------------------------------- bounds
MaxTime == 2        \* the clock runs from 0 to MaxTime
MaxAdds == 2        \* add_task calls (task instances) in one behaviour
MaxThreads == 3     \* threads of one loop alive at the same time

\* start(), lines 137-143: the two threads of the engine.
LoopThreads == {"scheduler_thread", "status_checker_thread"}

Ids == {1, 2}                 \* change numbers
Times == 1..MaxTime           \* implementation times a caller may ask for
None == "None"                \* Python's None

\* None where a task dict is expected (dict.get on a missing key, "no task
\* executed yet"): a record, so that it compares with task records.
NoTask == [change_number |-> 0, implementation_time |-> 0, inst |-> 0,
           resched |-> FALSE, skipped |-> FALSE]

VARIABLES
    \* --- TaskManager fields (task_manager.py:19-26)
    scheduled_tasks,    \* dict change_number -> task, in insertion order
    task_queue,         \* PriorityQueue of <<timestamp, change_number>>
    is_running,
    file_lock,          \* "free" or the thread that holds it
    \* --- _scheduler_loop thread
    sched_pc,           \* "none", "loop", "get", "lock", "decide"
    change_number,      \* local: id of the peeked entry
    response,           \* local: what the oracle answered this iteration
    status,             \* local: result of check_change_status
    \* --- _status_checker_loop thread
    sweep_pc,           \* "none", "sleep", "remove"
    changes_to_remove,  \* local
    \* --- callers of add_task / remove_task that left the critical section
    \*     and have not yet called save_tasks
    callers_to_save,
    \* --- core/storage.py
    track_saves,        \* whether the behaviour follows the save threads
    save_threads,       \* bag of snapshots held by running save_in_thread
    file,               \* content of SCHEDULED_TASKS_FILE
    \* --- the live API engine (Part II): api/app.py TaskStore,
    \*     services/scheduler.py TaskScheduler
    store_tasks,        \* TaskStore.tasks
    api_queue,          \* TaskScheduler.task_queue
    api_running,        \* TaskScheduler.is_running
    api_pc,             \* TaskScheduler._scheduler_loop: "none", "loop",
                        \* "get", "lookup", "check", "remove"
    api_change_number,  \* local change_number
    api_task,           \* local task
    post_pending,       \* schedule_change between task_store.add and
                        \* scheduler.add_task: the entry to put, or None
    chk_pc,             \* StatusChecker._checker_loop: "none" before
                        \* start(), "sleep", "check" inside the for loop
    chk_numbers,        \* the ids of its snapshot still to be asked about
    post_result,        \* answer to the latest POST /schedule: None before
                        \* the first, "201" or "422"
    \* --- environment
    now,                \* the clock
    oracle_canceled,    \* ids the Status Oracle has turned to "canceled" for good
    oracle_failing,     \* ids for which the query of the Status Oracle
                        \* fails (followed by FailSpec only)
                        \* (followed by OracleSpec only)
    \* --- what add_task gave its caller and started
    add_result,         \* outcome of the latest add_task call: None before
                        \* the first, "task" (line 67) or "ValueError"
    probe_started,      \* ids for which add_task started the initial
                        \* status thread (lines 60-63) that has not ended
                        \* (ProbeSpec lets the threads run and end)
    \* --- what the latest start() / stop() call did
    loop_threads,       \* how many threads run each of the two loops
    lifecycle,          \* [call, threads]: the latest call that did not
                        \* return at once ("start", "stop", None before the
                        \* first) and the number of threads it created
                        \* (start) or joined (stop)
    \* --- the storage round trip
    round_trip,         \* saved: the mapping of id to record given to
                        \* save_tasks; loaded: load_tasks has returned
                        \* (followed by RoundTripSpec only)
    \* --- history
    add_count,          \* add_task calls made so far, per change number
    late_add,           \* some add_task came with a time already due
    dispatched,         \* insts handed to execute_task_async
    executing,          \* tasks whose execute_task thread has not ended
                        \* (ExecSpec lets the threads run and end)
    last_executed,      \* the task of the latest execute_task_async call
    removed,            \* insts deleted by remove_task
    evicted             \* insts deleted by the sweep

schedVars == <<sched_pc, change_number, status, response>>
sweepVars == <<sweep_pc, changes_to_remove>>
apiVars   == <<store_tasks, api_queue, api_running, api_pc,
               api_change_number, api_task, post_pending, post_result,
               chk_pc, chk_numbers>>
chkVars   == <<chk_pc, chk_numbers>>
callVars  == <<add_result, probe_started>>
envVars   == <<oracle_canceled, oracle_failing, callVars, lifecycle,
               loop_threads, round_trip>>
histVars  == <<add_count, late_add, dispatched, executing, last_executed,
               removed, evicted>>

vars == <<scheduled_tasks, task_queue, is_running, file_lock,
          sched_pc, change_number, status, response,
          sweep_pc, changes_to_remove,
          callers_to_save, track_saves, save_threads, file, apiVars, now,
          oracle_canceled, oracle_failing, add_result, probe_started, lifecycle, loop_threads, round_trip,
          add_count, late_add, dispatched, executing, last_executed,
          removed, evicted>>

\* ------------------------------------------------------------ dict helpers
Keys(d) == {d[i].change_number : i \in DOMAIN d}

KeyList(d) == [i \in DOMAIN d |-> d[i].change_number]

DictGet(d, cn) ==
    IF cn \in Keys(d)
    THEN d[CHOOSE i \in DOMAIN d : d[i].change_number = cn]
    ELSE NoTask

\* An insert that always appends, as a list of records would.
DictSetAppend(d, task) == Append(d, task)

\* line 51: d[task['change_number']] = task; a key that is already there keeps
\* its place.
DictSet(d, task) ==
    IF task.change_number \in Keys(d)
    THEN [i \in DOMAIN d |->
            IF d[i].change_number = task.change_number THEN task ELSE d[i]]
    ELSE Append(d, task)

DictDel(d, cn) == SelectSeq(d, LAMBDA t : t.change_number # cn)

\* A removal pass that deletes nothing.
DictDelAllKeeps(d, cns) == d

\* lines 254-257: every listed id that is in the dict is deleted.
RECURSIVE DictDelAll(_, _)
DictDelAll(d, cns) ==
    IF cns = <<>> THEN d
    ELSE DictDelAll(DictDel(d, Head(cns)), Tail(cns))

\* ----------------------------------------------------------- queue helpers
EntryLess(a, b) == a[1] < b[1] \/ (a[1] = b[1] /\ a[2] < b[2])

\* A put that appends: a plain FIFO queue in place of the priority queue.
QueuePutFifo(q, e) == Append(q, e)

\* queue.PriorityQueue.put: the queue is kept as the sorted sequence of its
\* entries; queue[0] and get() both address the minimum.
QueuePut(q, e) ==
    LET k == Cardinality({i \in DOMAIN q : ~ EntryLess(e, q[i])})
    IN  SubSeq(q, 1, k) \o <<e>> \o SubSeq(q, k + 1, Len(q))


\* ------------------------------------------------------------ the oracle
\* What requests.get(STATUS_CHECK_ENDPOINT...) can give check_change_status:
\* a 200 response whose JSON has a status, a 200 response without one, a
\* response with another status code, or an exception (timeout, refused).
Statuses == {"canceled", "approved"}

Responses ==
    [kind : {"ok"}, status : Statuses \cup {None}]
        \cup [kind : {"http_error", "exception"}, status : {None}]

check_change_status(resp) ==
    IF resp.kind = "ok" THEN resp.status ELSE None

\* ---------------------------------------------------------- core/storage
\* save_tasks: tasks_to_save = list(tasks.values()) is taken by the caller's
\* thread; a background thread writes it to the file later.  The save
\* threads touch nothing but the file, so the specifications of the engine
\* alone (track_saves false) leave them out; StorageSpec follows them.
\* A save_tasks that starts no thread.
save_tasks_dropped(threads, tasks) == threads

save_tasks(threads, tasks) ==
    IF track_saves THEN threads (+) SetToBag({tasks}) ELSE threads

\* A caller that leaves the critical section of add_task / remove_task and
\* will call save_tasks.
CallerLeaves(n) == IF track_saves THEN n + 1 ELSE n

SaveInThread ==
    \E snapshot \in BagToSet(save_threads) :
        /\ file' = snapshot
        /\ save_threads' = save_threads (-) SetToBag({snapshot})
        /\ UNCHANGED <<apiVars, envVars, track_saves, scheduled_tasks, task_queue, is_running,
                       file_lock, schedVars, sweepVars, callers_to_save,
                       now, histVars>>

\* ------------------------------------------------------------------ Init
Init ==
    /\ scheduled_tasks = <<>>
    /\ task_queue = <<>>
    /\ is_running = FALSE
    /\ file_lock = "free"
    /\ sched_pc = "none"
    /\ change_number = None
    /\ status = None
    /\ response = None
    /\ sweep_pc = "none"
    /\ changes_to_remove = <<>>
    /\ callers_to_save = 0
    /\ track_saves = FALSE
    /\ save_threads = EmptyBag
    /\ file = <<>>
    /\ store_tasks = <<>>
    /\ api_queue = <<>>
    /\ api_running = FALSE
    /\ api_pc = "none"
    /\ chk_pc = "none"
    /\ chk_numbers = <<>>
    /\ api_change_number = None
    /\ api_task = NoTask
    /\ post_pending = None
    /\ post_result = None
    /\ now = 0
    /\ oracle_canceled = {}
    /\ oracle_failing = {}
    /\ add_result = None
    /\ probe_started = {}
    /\ lifecycle = [call |-> None, threads |-> 0]
    /\ loop_threads = [th \in LoopThreads |-> 0]
    /\ round_trip = [saved |-> <<>>, loaded |-> FALSE]
    /\ add_count = [cn \in Ids |-> 0]
    /\ late_add = FALSE
    /\ dispatched = {}
    /\ executing = {}
    /\ last_executed = NoTask
    /\ removed = {}
    /\ evicted = {}

\* ------------------------------------------------------- TaskManager API
RECURSIVE SumOver(_, _)
SumOver(f, S) ==
    IF S = {} THEN 0
    ELSE LET x == CHOOSE y \in S : TRUE IN f[x] + SumOver(f, S \ {x})

NumAdds == SumOver(add_count, Ids)

\* A test that never finds the engine running.
AlreadyRunningNever(flag) == FALSE

\* line 119
AlreadyRunning(flag) == flag

\* start(), lines 112-145: the fixture's manager.start(), without initial
\* tasks.  Two threads are created and started.
Start ==
    /\ ~ AlreadyRunning(is_running)
    /\ is_running' = TRUE
    /\ sched_pc' = "loop"
    /\ sweep_pc' = "sleep"
    /\ lifecycle' = [call |-> "start", threads |-> 2]
    /\ loop_threads' = [th \in LoopThreads |-> loop_threads[th] + 1]
    /\ UNCHANGED <<apiVars, oracle_canceled, oracle_failing, callVars, round_trip, track_saves, scheduled_tasks, task_queue, file_lock,
                   change_number, status, response,
                   changes_to_remove,
                   callers_to_save, save_threads, file, now, histVars>>

\* add_task, lines 38-54: the critical section.  The caller then goes on to
\* save_tasks (CallerSave).
\* A task dict as the caller builds it.  inst stands for the identity of the
\* dict object: every add_task call passes a new one.  resched records that
\* this call took the "Rescheduling" branch (line 47) and moved the id to a
\* later time; skipped, that the scheduling loop has seen the oracle answer
\* "canceled" for this task (line 202).  The program reads none of the three.
NewTask(cn, t) ==
    [change_number |-> cn, implementation_time |-> t,
     inst |-> NumAdds + 1,
     resched |-> /\ cn \in Keys(scheduled_tasks)
                 /\ DictGet(scheduled_tasks, cn).implementation_time < t,
     skipped |-> FALSE]

AddTask(cn, t) ==
    /\ NumAdds < MaxAdds
    /\ file_lock = "free"
    /\ scheduled_tasks' = DictSet(scheduled_tasks, NewTask(cn, t))
    /\ task_queue' = QueuePut(task_queue, <<t, cn>>)
    /\ add_count' = [add_count EXCEPT ![cn] = @ + 1]
    /\ late_add' = (late_add \/ t <= now)
    /\ callers_to_save' = CallerLeaves(callers_to_save)
    /\ probe_started' = probe_started \cup {cn}
    /\ add_result' = "task"
    /\ UNCHANGED <<apiVars, oracle_canceled, oracle_failing, lifecycle, loop_threads, round_trip, track_saves, is_running, file_lock, schedVars, sweepVars,
                   save_threads, file, now,
                   dispatched, executing, last_executed, removed, evicted>>

\* A removal that reports success and deletes nothing.
RemoveFromKeeps(tasks, cn) == tasks

\* line 83
RemoveFrom(tasks, cn) == DictDel(tasks, cn)

\* A test that finds every id.
IsPendingAlways(tasks, cn) == TRUE

\* line 80
IsPending(tasks, cn) == cn \in Keys(tasks)

\* remove_task, lines 79-83, for an id that is pending.
RemoveTask(cn) ==
    /\ file_lock = "free"
    /\ IsPending(scheduled_tasks, cn)
    /\ removed' = removed \cup {DictGet(scheduled_tasks, cn).inst}
    /\ scheduled_tasks' = RemoveFrom(scheduled_tasks, cn)
    /\ callers_to_save' = CallerLeaves(callers_to_save)
    /\ UNCHANGED <<apiVars, envVars, track_saves, task_queue, is_running, file_lock, schedVars, sweepVars,
                   save_threads, file, now,
                   add_count, late_add, dispatched, executing, last_executed,
                   evicted>>

\* remove_task, lines 79-81, for an id that is not pending: returns False.
RemoveAbsent(cn) ==
    /\ file_lock = "free"
    /\ ~ IsPending(scheduled_tasks, cn)
    /\ UNCHANGED vars

\* add_task line 57 / remove_task line 86: save_tasks(self.scheduled_tasks),
\* called after the lock was released, on the dict as it is by then.
CallerSave ==
    /\ callers_to_save > 0
    /\ callers_to_save' = callers_to_save - 1
    /\ save_threads' = save_tasks(save_threads, scheduled_tasks)
    /\ UNCHANGED <<apiVars, envVars, track_saves, scheduled_tasks, task_queue, is_running, file_lock,
                   schedVars, sweepVars, file, now, histVars>>

\* A loop test that is always true.
LoopGoesOnAlways == TRUE

\* `while self.is_running` (lines 170, 225) and the test after the sweep's
\* sleep (line 230).
LoopGoesOn == is_running

\* ---------------------------------------------------------- the clock
Tick ==
    /\ now < MaxTime
    /\ now' = now + 1
    /\ UNCHANGED <<apiVars, envVars, track_saves, scheduled_tasks, task_queue, is_running, file_lock,
                   schedVars, sweepVars, callers_to_save, save_threads, file,
                   histVars>>

\* ------------------------------------------------------ _scheduler_loop
\* One iteration, lines 170-209.  The locals are dead once the iteration is
\* over and are reset to None there.

\* line 173 false, line 209: the queue is empty, sleep.
SchedIdle ==
    /\ sched_pc = "loop" /\ LoopGoesOn
    /\ task_queue = <<>>
    /\ UNCHANGED vars

\* lines 175-179 false, line 206: the head is not due, sleep.
SchedWait ==
    /\ sched_pc = "loop" /\ LoopGoesOn
    /\ task_queue # <<>>
    /\ ~ (Head(task_queue)[1] <= now)
    /\ UNCHANGED vars

\* lines 175-179: peek at queue[0], read the clock, find the head due.
SchedPeek ==
    /\ sched_pc = "loop" /\ LoopGoesOn
    /\ task_queue # <<>>
    /\ Head(task_queue)[1] <= now
    /\ change_number' = Head(task_queue)[2]
    /\ sched_pc' = "get"
    /\ UNCHANGED <<apiVars, envVars, track_saves, scheduled_tasks, task_queue, is_running, file_lock,
                   status, response, sweepVars,
                   callers_to_save, save_threads, file, now, histVars>>

\* line 181: task_queue.get() removes whatever the minimum is by now.
SchedGet ==
    /\ sched_pc = "get"
    /\ task_queue' = Tail(task_queue)
    /\ sched_pc' = "lock"
    /\ UNCHANGED <<apiVars, envVars, track_saves, scheduled_tasks, is_running, file_lock,
                   change_number, status, response, sweepVars,
                   callers_to_save, save_threads, file, now, histVars>>

\* The task dictionary handed to execute_task_async: the fields of the
\* caller's task (resched and skipped are the model's notes on it).
Fields(task) ==
    [change_number |-> task.change_number,
     implementation_time |-> task.implementation_time,
     inst |-> task.inst]

\* A test that finds every id in the dictionary.
InScheduledAlways(tasks, cn) == TRUE

\* line 185: `if change_number in self.scheduled_tasks`.
InScheduled(tasks, cn) == cn \in Keys(tasks)

\* lines 184-185 false: the id is not pending, the entry is dropped.
SchedStale ==
    /\ sched_pc = "lock"
    /\ file_lock = "free"
    /\ ~ InScheduled(scheduled_tasks, change_number)
    /\ sched_pc' = "loop"
    /\ change_number' = None
    /\ UNCHANGED <<apiVars, envVars, track_saves, scheduled_tasks, task_queue, is_running, file_lock,
                   status, response, sweepVars,
                   callers_to_save, save_threads, file, now, histVars>>

\* lines 184-187: the id is pending; the loop takes the lock and, holding
\* it, calls the oracle.  In state "decide" the call is under way; what it
\* will return is held in response.
SchedLock ==
    /\ sched_pc = "lock"
    /\ file_lock = "free"
    /\ InScheduled(scheduled_tasks, change_number)
    /\ file_lock' = "sched"
    /\ \E resp \in Responses :
        /\ response' = resp
        /\ status' = check_change_status(resp)
    /\ sched_pc' = "decide"
    /\ UNCHANGED <<apiVars, envVars, track_saves, scheduled_tasks, task_queue, is_running,
                   change_number, sweepVars,
                   callers_to_save, save_threads, file, now, histVars>>

\* A critical section that releases the lock only when it is left without
\* an exception.
WithExitOnReturn(lock, raised) == IF raised THEN lock ELSE "free"

\* line 184, `with self.file_lock:`: the lock is released when the block is
\* left, by its end or by an exception.
WithExit(lock, raised) == "free"

\* Fail-closed: execute only on a positive answer.
ShouldExecuteApproved(st) == st = "approved"

\* line 190
ShouldExecute(st) == st # "canceled"

\* The dispatched task is left in the dict.
RetireKeeps(tasks, cn) == tasks

\* line 194
Retire(tasks, cn) == DictDel(tasks, cn)

\* lines 190-200: not canceled: delete, save, dispatch; the lock is released.
SchedFire ==
    /\ sched_pc = "decide"
    /\ ShouldExecute(status)
    /\ LET task == DictGet(scheduled_tasks, change_number)
           left == Retire(scheduled_tasks, change_number)
       IN  /\ scheduled_tasks' = left
           /\ save_threads' = save_tasks(save_threads, left)
           /\ dispatched' = dispatched \cup {task.inst}
           /\ executing' = executing \cup {Fields(task)}
           /\ last_executed' = task
    /\ file_lock' = WithExit(file_lock, FALSE)
    /\ sched_pc' = "loop"
    /\ change_number' = None
    /\ status' = None
    /\ response' = None
    /\ UNCHANGED <<apiVars, envVars, track_saves, task_queue, is_running, sweepVars,
                   callers_to_save, file, now,
                   add_count, late_add, removed, evicted>>

\* lines 201-202: canceled: only a log line; the lock is released.
SchedSkip ==
    /\ sched_pc = "decide"
    /\ ~ ShouldExecute(status)
    /\ scheduled_tasks' =
         DictSet(scheduled_tasks,
                 [DictGet(scheduled_tasks, change_number)
                    EXCEPT !.skipped = TRUE])
    /\ file_lock' = WithExit(file_lock, FALSE)
    /\ sched_pc' = "loop"
    /\ change_number' = None
    /\ status' = None
    /\ response' = None
    /\ UNCHANGED <<apiVars, envVars, track_saves, task_queue, is_running, sweepVars,
                   callers_to_save, save_threads, file, now, histVars>>

\* -------------------------------------------------- _status_checker_loop
\* What check_change_status can return.
Outcomes == {check_change_status(resp) : resp \in Responses}

\* lines 239-249: the for loop over the snapshot.  statuses[cn] is what
\* check_change_status returns for cn; the id is appended when that is
\* "canceled".
\* A for loop that ends at the first id whose query gave no status.
RECURSIVE CollectStops(_, _)
CollectStops(change_numbers, statuses) ==
    IF change_numbers = <<>> THEN <<>>
    ELSE LET cn == Head(change_numbers)
         IN  IF statuses[cn] = None THEN <<>>
             ELSE IF statuses[cn] = "canceled"
                  THEN <<cn>> \o CollectStops(Tail(change_numbers), statuses)
                  ELSE CollectStops(Tail(change_numbers), statuses)

RECURSIVE Collect(_, _)
Collect(change_numbers, statuses) ==
    IF change_numbers = <<>> THEN <<>>
    ELSE LET cn == Head(change_numbers)
             rest == Collect(Tail(change_numbers), statuses)
         IN  IF statuses[cn] = "canceled" THEN <<cn>> \o rest ELSE rest

\* lines 225-249: the sleep is over and the engine still runs: the keys are
\* copied under the lock (234-235), then the for loop asks the oracle about
\* each of them (240-249).  The loop touches only its locals, so it is one
\* step; the snapshot is dead after it.
SweepWith(statuses) ==
    /\ sweep_pc = "sleep" /\ LoopGoesOn
    /\ file_lock = "free"
    /\ LET change_numbers == KeyList(scheduled_tasks)
       IN  changes_to_remove' = Collect(change_numbers, statuses)
    /\ sweep_pc' = "remove"
    /\ UNCHANGED <<apiVars, envVars, track_saves, scheduled_tasks, task_queue, is_running, file_lock,
                   schedVars,
                   callers_to_save, save_threads, file, now, histVars>>

\* The oracle may answer anything for any id.
SweepCheck ==
    \E statuses \in [Keys(scheduled_tasks) -> Outcomes] : SweepWith(statuses)

\* line 252 false: nothing was collected.
SweepNothing ==
    /\ sweep_pc = "remove"
    /\ changes_to_remove = <<>>
    /\ sweep_pc' = "sleep"
    /\ UNCHANGED <<apiVars, envVars, track_saves, scheduled_tasks, task_queue, is_running, file_lock,
                   schedVars, changes_to_remove,
                   callers_to_save, save_threads, file, now, histVars>>

\* lines 252-261: delete the collected ids that are still pending, save.
SweepRemove ==
    /\ sweep_pc = "remove"
    /\ changes_to_remove # <<>>
    /\ file_lock = "free"
    /\ LET left == DictDelAll(scheduled_tasks, changes_to_remove)
           gone == {scheduled_tasks[i].inst : i \in
                     {j \in DOMAIN scheduled_tasks :
                        \E k \in DOMAIN changes_to_remove :
                          changes_to_remove[k] =
                            scheduled_tasks[j].change_number}}
       IN  /\ scheduled_tasks' = left
           /\ evicted' = evicted \cup gone
           /\ save_threads' = save_tasks(save_threads, left)
    /\ sweep_pc' = "sleep"
    /\ changes_to_remove' = <<>>
    /\ UNCHANGED <<apiVars, envVars, track_saves, task_queue, is_running, file_lock, schedVars,
                   callers_to_save, file, now,
                   add_count, late_add, dispatched, executing, last_executed,
                   removed>>

\* ------------------------------------------------------------------ Next
Next ==
    \/ Start
    \/ \E cn \in Ids, t \in Times : AddTask(cn, t)
    \/ \E cn \in Ids : RemoveTask(cn)
    \/ \E cn \in Ids : RemoveAbsent(cn)
    \/ Tick
    \/ SchedIdle
    \/ SchedWait
    \/ SchedPeek
    \/ SchedGet
    \/ SchedStale
    \/ SchedLock
    \/ SchedFire
    \/ SchedSkip
    \/ SweepCheck
    \/ SweepNothing
    \/ SweepRemove

Spec == Init /\ [][Next]_vars

\* The engine together with the save threads of core/storage.py.
InitStorage ==
    /\ track_saves = TRUE
    /\ scheduled_tasks = <<>>
    /\ task_queue = <<>>
    /\ is_running = FALSE
    /\ file_lock = "free"
    /\ sched_pc = "none"
    /\ change_number = None
    /\ status = None
    /\ response = None
    /\ sweep_pc = "none"
    /\ changes_to_remove = <<>>
    /\ callers_to_save = 0
    /\ save_threads = EmptyBag
    /\ file = <<>>
    /\ store_tasks = <<>>
    /\ api_queue = <<>>
    /\ api_running = FALSE
    /\ api_pc = "none"
    /\ chk_pc = "none"
    /\ chk_numbers = <<>>
    /\ api_change_number = None
    /\ api_task = NoTask
    /\ post_pending = None
    /\ post_result = None
    /\ now = 0
    /\ oracle_canceled = {}
    /\ oracle_failing = {}
    /\ add_result = None
    /\ probe_started = {}
    /\ lifecycle = [call |-> None, threads |-> 0]
    /\ loop_threads = [th \in LoopThreads |-> 0]
    /\ round_trip = [saved |-> <<>>, loaded |-> FALSE]
    /\ add_count = [cn \in Ids |-> 0]
    /\ late_add = FALSE
    /\ dispatched = {}
    /\ executing = {}
    /\ last_executed = NoTask
    /\ removed = {}
    /\ evicted = {}

NextStorage == Next \/ CallerSave \/ SaveInThread

StorageSpec == InitStorage /\ [][NextStorage]_vars

\* The callers of add_task and remove_task with their saves: any number of
\* save threads may be waiting for the storage lock, and they get it in any
\* order.
ConvergeNext ==
    \/ \E cn \in Ids, t \in Times : AddTask(cn, t)
    \/ \E cn \in Ids : RemoveTask(cn)
    \/ CallerSave
    \/ SaveInThread

ConvergeSpec == InitStorage /\ [][ConvergeNext]_vars

\* No caller is on its way to save_tasks and no save thread is running.
NoSavePending == callers_to_save = 0 /\ save_threads = EmptyBag

\* The engine and its saves, followed one save at a time: a save that has
\* been asked for runs to its end before the engine takes its next step.
SaveNext ==
    \/ NoSavePending /\ Next
    \/ CallerSave
    \/ SaveInThread

SaveSpec == InitStorage /\ [][SaveNext]_vars

TypeOK ==
    /\ file_lock \in {"free", "sched"}
    /\ sched_pc \in {"none", "loop", "get", "lock", "decide"}
    /\ sweep_pc \in {"none", "sleep", "remove"}
    /\ chk_pc \in {"none", "sleep", "check"}
    /\ now \in 0..MaxTime
    /\ NumAdds <= MaxAdds


\* =========================================================================
\* The TaskManager engine with a Status Oracle that has a memory
\* =========================================================================
\* In Spec the oracle answers anything at any time.  Here a change, once
\* canceled, stays canceled: the oracle answers "canceled" for the ids in
\* oracle_canceled and something else (another status, no status, an error)
\* for the others.
OracleCancel(cn) ==
    /\ cn \notin oracle_canceled
    /\ oracle_canceled' = oracle_canceled \cup {cn}
    /\ UNCHANGED <<scheduled_tasks, task_queue, is_running, file_lock,
                   schedVars, sweepVars, callers_to_save, track_saves,
                   save_threads, file, apiVars, now, callVars, lifecycle, loop_threads,
                   round_trip, oracle_failing,
                   histVars>>

\* check_change_status(cn) agrees with the oracle's memory.
Agrees(cn, st) == (st = "canceled") <=> (cn \in oracle_canceled)

\* _scheduler_loop lines 184-187 with this oracle.
SchedLockOracle ==
    /\ SchedLock
    /\ Agrees(change_number, status')

\* _status_checker_loop lines 225-249 with this oracle (the calls of one
\* sweep are answered from one state of the oracle's memory).
SweepCheckOracle ==
    \E statuses \in [Keys(scheduled_tasks) -> Outcomes] :
        /\ \A cn \in Keys(scheduled_tasks) : Agrees(cn, statuses[cn])
        /\ SweepWith(statuses)

OracleNext ==
    \/ Start
    \/ \E cn \in Ids, t \in Times : AddTask(cn, t)
    \/ \E cn \in Ids : RemoveTask(cn)
    \/ \E cn \in Ids : RemoveAbsent(cn)
    \/ \E cn \in Ids : OracleCancel(cn)
    \/ Tick
    \/ SchedIdle
    \/ SchedWait
    \/ SchedPeek
    \/ SchedGet
    \/ SchedStale
    \/ SchedLockOracle
    \/ SchedFire
    \/ SchedSkip
    \/ SweepCheckOracle
    \/ SweepNothing
    \/ SweepRemove

OracleSpec == Init /\ [][OracleNext]_vars

\* ------------------------------------------------------ start() and stop()
\* start() on a running engine: line 120 returns.
StartAgain ==
    /\ AlreadyRunning(is_running)
    /\ UNCHANGED vars

\* The threads stop() joins, lines 154-158: those that exist and are alive.
Alive == {th \in {"scheduler_thread", "status_checker_thread"} :
            \/ th = "scheduler_thread" /\ sched_pc # "none"
            \/ th = "status_checker_thread" /\ sweep_pc # "none"}

\* stop(), lines 147-160, on a running engine: clear the flag, wait for the
\* threads (five seconds each at most; the wait changes nothing).
Stop ==
    /\ is_running
    /\ is_running' = FALSE
    /\ lifecycle' = [call |-> "stop", threads |-> Cardinality(Alive)]
    /\ UNCHANGED <<scheduled_tasks, task_queue, file_lock, schedVars,
                   sweepVars, callers_to_save, track_saves, save_threads,
                   file, apiVars, now, oracle_canceled, oracle_failing, callVars, round_trip,
                   loop_threads, histVars>>

\* stop() on a stopped engine: line 150 returns.
StopAgain ==
    /\ ~ is_running
    /\ UNCHANGED vars

\* line 170 false: _scheduler_loop returns.
SchedExit ==
    /\ sched_pc = "loop" /\ ~ LoopGoesOn
    /\ sched_pc' = "none"
    /\ loop_threads' = [loop_threads EXCEPT !["scheduler_thread"] = @ - 1]
    /\ UNCHANGED <<apiVars, oracle_canceled, oracle_failing, callVars,
                   lifecycle, round_trip, track_saves, scheduled_tasks, task_queue,
                   is_running, file_lock, change_number, status, response,
                   sweepVars, callers_to_save, save_threads, file, now,
                   histVars>>

\* line 225 false, or line 230 true after the sleep: _status_checker_loop
\* returns.
SweepExit ==
    /\ sweep_pc = "sleep" /\ ~ LoopGoesOn
    /\ sweep_pc' = "none"
    /\ loop_threads' = [loop_threads EXCEPT !["status_checker_thread"] = @ - 1]
    /\ UNCHANGED <<apiVars, oracle_canceled, oracle_failing, callVars,
                   lifecycle, round_trip, track_saves, scheduled_tasks, task_queue,
                   is_running, file_lock, schedVars, changes_to_remove,
                   callers_to_save, save_threads, file, now, histVars>>

\* Both loops of the previous start() have returned (or none was started).
LoopsGone == sched_pc = "none" /\ sweep_pc = "none"

\* start() is called on a running engine, or on one whose loops have
\* returned: a start() beside loops that stop() left alive would run two
\* threads of each loop.
StartCall == (is_running \/ LoopsGone) /\ Start

\* The engine with its callers of start(), stop() and add_task.
LifeNext ==
    \/ StartCall
    \/ StartAgain
    \/ Stop
    \/ StopAgain
    \/ SchedExit
    \/ SweepExit
    \/ \E cn \in Ids, t \in Times : AddTask(cn, t)
    \/ Tick
    \/ SchedIdle
    \/ SchedWait
    \/ SchedPeek
    \/ SchedGet
    \/ SchedStale
    \/ SchedLock
    \/ SchedFire
    \/ SchedSkip
    \/ SweepCheck
    \/ SweepNothing
    \/ SweepRemove

LifeSpec == Init /\ [][LifeNext]_vars

\* ------------------------------------------- exceptions inside an iteration
\* An exception that leaves the thread: the loop is over.
Escapes(boundary) == "none"

\* `except Exception` inside the while loop (lines 211-213, 263-265): log,
\* sleep, and the loop is at its boundary again.
Absorbed(boundary) == boundary

\* Something raises in the scheduling loop's iteration outside the `with`
\* block (lines 181-184): the popped entry and the locals are gone.
SchedRaise ==
    /\ sched_pc \in {"get", "lock"}
    /\ sched_pc' = Absorbed("loop")
    /\ change_number' = None
    /\ UNCHANGED <<apiVars, envVars, track_saves, scheduled_tasks, task_queue,
                   is_running, file_lock, status, response, sweepVars,
                   callers_to_save, save_threads, file, now, histVars>>

\* Something raises inside the `with` block before the delete (lines
\* 187-192): the with statement releases the lock on the way out.
SchedRaiseLocked ==
    /\ sched_pc = "decide"
    /\ file_lock' = WithExit(file_lock, TRUE)
    /\ sched_pc' = Absorbed("loop")
    /\ change_number' = None
    /\ status' = None
    /\ response' = None
    /\ UNCHANGED <<apiVars, envVars, track_saves, scheduled_tasks, task_queue,
                   is_running, sweepVars, callers_to_save, save_threads, file,
                   now, histVars>>

\* execute_task_async raises (line 200; Thread.start can): the task is
\* deleted and saved but not dispatched.
SchedFireRaise ==
    /\ sched_pc = "decide"
    /\ ShouldExecute(status)
    /\ LET left == Retire(scheduled_tasks, change_number)
       IN  /\ scheduled_tasks' = left
           /\ save_threads' = save_tasks(save_threads, left)
    /\ file_lock' = WithExit(file_lock, TRUE)
    /\ sched_pc' = Absorbed("loop")
    /\ change_number' = None
    /\ status' = None
    /\ response' = None
    /\ UNCHANGED <<apiVars, envVars, track_saves, task_queue, is_running,
                   sweepVars, callers_to_save, file, now, histVars>>

\* Something raises in the sweep's iteration after the for loop (lines
\* 251-254): what was collected is gone.
SweepRaise ==
    /\ sweep_pc = "remove"
    /\ sweep_pc' = Absorbed("sleep")
    /\ changes_to_remove' = <<>>
    /\ UNCHANGED <<apiVars, envVars, track_saves, scheduled_tasks, task_queue,
                   is_running, file_lock, schedVars, callers_to_save,
                   save_threads, file, now, histVars>>

\* The started engine with add_task callers and iterations that fail.
FaultNext ==
    \/ Start
    \/ \E cn \in Ids, t \in Times : AddTask(cn, t)
    \/ Tick
    \/ SchedIdle
    \/ SchedWait
    \/ SchedPeek
    \/ SchedGet
    \/ SchedStale
    \/ SchedLock
    \/ SchedFire
    \/ SchedSkip
    \/ SweepCheck
    \/ SweepNothing
    \/ SweepRemove
    \/ SchedRaise
    \/ SchedRaiseLocked
    \/ SchedFireRaise
    \/ SweepRaise

FaultSpec == Init /\ [][FaultNext]_vars

\* ------------------------------------------ start() beside live threads
\* start(), lines 119-143, whenever is_running is false: whether the loops
\* of an earlier start() have returned is not looked at.
StartBeside ==
    /\ \A th \in LoopThreads : loop_threads[th] < MaxThreads
    /\ Start

\* line 170 false in the last thread of the scheduling loop.
SchedExitLast ==
    /\ loop_threads["scheduler_thread"] = 1
    /\ SchedExit

\* line 170 false in one of several threads of the scheduling loop.
SchedReturns ==
    /\ loop_threads["scheduler_thread"] > 1
    /\ sched_pc = "loop" /\ ~ LoopGoesOn
    /\ loop_threads' = [loop_threads EXCEPT !["scheduler_thread"] = @ - 1]
    /\ UNCHANGED <<apiVars, oracle_canceled, oracle_failing, callVars,
                   lifecycle, round_trip, track_saves, scheduled_tasks,
                   task_queue, is_running, file_lock, schedVars, sweepVars,
                   callers_to_save, save_threads, file, now, histVars>>

\* lines 225 and 230 in the last thread of the sweep.
SweepExitLast ==
    /\ loop_threads["status_checker_thread"] = 1
    /\ SweepExit

\* lines 225 and 230 in one of several threads of the sweep.
SweepReturns ==
    /\ loop_threads["status_checker_thread"] > 1
    /\ sweep_pc = "sleep" /\ ~ LoopGoesOn
    /\ loop_threads' = [loop_threads EXCEPT !["status_checker_thread"] = @ - 1]
    /\ UNCHANGED <<apiVars, oracle_canceled, oracle_failing, callVars,
                   lifecycle, round_trip, track_saves, scheduled_tasks,
                   task_queue, is_running, file_lock, schedVars, sweepVars,
                   callers_to_save, save_threads, file, now, histVars>>

\* The callers of start(), stop() and add_task, and the loops' threads at
\* the test of is_running, where they go on or return.
ThreadNext ==
    \/ StartBeside
    \/ StartAgain
    \/ Stop
    \/ StopAgain
    \/ SchedExitLast
    \/ SchedReturns
    \/ SweepExitLast
    \/ SweepReturns
    \/ \E cn \in Ids, t \in Times : AddTask(cn, t)
    \/ Tick

ThreadSpec == Init /\ [][ThreadNext]_vars

\* ------------------------------------------ an oracle whose queries fail
\* From now on the query for cn fails: requests.get raises or answers with
\* a status code other than 200.
OracleFail(cn) ==
    /\ cn \notin oracle_failing
    /\ oracle_failing' = oracle_failing \cup {cn}
    /\ UNCHANGED <<scheduled_tasks, task_queue, is_running, file_lock,
                   schedVars, sweepVars, callers_to_save, track_saves,
                   save_threads, file, apiVars, now, oracle_canceled,
                   callVars, lifecycle, loop_threads, round_trip, histVars>>

\* What the oracle's endpoint gives for cn.
Answer(cn) ==
    IF cn \in oracle_failing
    THEN [kind |-> "exception", status |-> None]
    ELSE [kind |-> "ok",
          status |-> IF cn \in oracle_canceled THEN "canceled"
                     ELSE "approved"]

\* _status_checker_loop lines 225-249 with this oracle.
SweepCheckFailing ==
    SweepWith([cn \in Keys(scheduled_tasks) |->
                 check_change_status(Answer(cn))])

\* The sweep of the started engine, add_task callers and the oracle.
FailNext ==
    \/ Start
    \/ \E cn \in Ids, t \in Times : AddTask(cn, t)
    \/ \E cn \in Ids : OracleCancel(cn)
    \/ \E cn \in Ids : OracleFail(cn)
    \/ SweepCheckFailing
    \/ SweepNothing
    \/ SweepRemove

FailSpec == Init /\ [][FailNext]_vars

\* ------------------------------------------ the initial status thread
\* A thread whose answer "canceled" takes the id out of the dictionary.
AfterProbeEvicts(tasks, cn, st) ==
    IF st = "canceled" THEN DictDel(tasks, cn) ELSE tasks

\* task_manager.py, lines 60-63: target=lambda: check_change_status(cn).
\* What the call returns is the lambda's value, which nothing reads: the
\* dictionary after the thread is the dictionary before it.
AfterProbe(tasks, cn, st) == tasks

\* The initial status thread of one add_task runs: it asks the oracle, which
\* may answer anything or fail, and ends.
ProbeRun(cn) ==
    /\ cn \in probe_started
    /\ \E resp \in Responses :
         scheduled_tasks' =
             AfterProbe(scheduled_tasks, cn, check_change_status(resp))
    /\ probe_started' = probe_started \ {cn}
    /\ UNCHANGED <<task_queue, is_running, file_lock, schedVars, sweepVars,
                   callers_to_save, track_saves, save_threads, file,
                   apiVars, now, oracle_canceled, oracle_failing, add_result, lifecycle, loop_threads,
                   round_trip, histVars>>

\* The add_task callers, their status threads and the scheduling loop.  The
\* sweep, the one other thread that takes ids out of the dictionary, is
\* followed by Spec, OracleSpec and SaveSpec.
ProbeNext ==
    \/ Start
    \/ \E cn \in Ids, t \in Times : AddTask(cn, t)
    \/ \E cn \in Ids : ProbeRun(cn)
    \/ Tick
    \/ SchedIdle
    \/ SchedWait
    \/ SchedPeek
    \/ SchedGet
    \/ SchedStale
    \/ SchedLock
    \/ SchedFire
    \/ SchedSkip

ProbeSpec == Init /\ [][ProbeNext]_vars

\* ------------------------------------------------- scheduler/execution
\* What can happen to the request of execute_task.
Requests == {"200", "500", "timeout", "exception"}

\* execute_task, lines 19-36: the status code of the answer, None when the
\* request raised; every exception is caught.
execute_task(request) ==
    IF request \in {"200", "500"} THEN request ELSE None

\* An engine that puts a task back when its execution did not answer 200.
AfterExecuteRetries(tasks, task, code) ==
    IF code = "200" THEN tasks
    ELSE DictSet(tasks, [change_number |-> task.change_number,
                         implementation_time |-> task.implementation_time,
                         inst |-> task.inst,
                         resched |-> FALSE, skipped |-> FALSE])

\* execute_task_async, lines 45-48: Thread(target=execute_task); the value
\* execute_task returns is the thread's, which nothing reads: the
\* dictionary after the thread is the dictionary before it.
AfterExecute(tasks, task, code) == tasks

\* The execution thread of a dispatched task runs and ends.
ExecRun(task) ==
    /\ task \in executing
    /\ \E request \in Requests :
         scheduled_tasks' =
             AfterExecute(scheduled_tasks, task, execute_task(request))
    /\ executing' = executing \ {task}
    /\ UNCHANGED <<task_queue, is_running, file_lock, schedVars, sweepVars,
                   callers_to_save, track_saves, save_threads, file,
                   apiVars, envVars, now, add_count, late_add, dispatched,
                   last_executed, removed, evicted>>

\* The add_task callers, the scheduling loop and the execution threads.
ExecNext ==
    \/ Start
    \/ \E cn \in Ids, t \in Times : AddTask(cn, t)
    \/ \E task \in executing : ExecRun(task)
    \/ Tick
    \/ SchedIdle
    \/ SchedWait
    \/ SchedPeek
    \/ SchedGet
    \/ SchedStale
    \/ SchedLock
    \/ SchedFire
    \/ SchedSkip

ExecSpec == Init /\ [][ExecNext]_vars

\* ------------------------------------------- the two locks together
\* The steps of the engine that take place with no save ahead or running.
\* (Following every save beside every step is beyond what can be checked;
\* the steps taken while the engine lock is held are not restricted.)
BetweenSaves ==
    /\ NoSavePending
    /\ \/ Start
       \/ \E cn \in Ids, t \in Times : AddTask(cn, t)
       \/ Tick
       \/ SchedIdle
       \/ SchedWait
       \/ SchedPeek
       \/ SchedGet
       \/ SchedStale
       \/ SchedRaise
       \/ SweepCheck
       \/ SweepNothing
       \/ SweepRemove
       \/ SweepRaise

\* The engine with failing iterations and with its saves: the scheduling
\* loop takes and holds the engine lock while callers are on their way to
\* save_tasks and save threads wait for the storage lock.
LockNext ==
    \/ BetweenSaves
    \/ SchedLock
    \/ SchedFire
    \/ SchedSkip
    \/ SchedRaiseLocked
    \/ SchedFireRaise
    \/ CallerSave
    \/ SaveInThread

LockSpec == InitStorage /\ [][LockNext]_vars

\* ------------------------------------------- add_task on the caller's string
\* The implementation_time a caller passes is a string; what matters of it is
\* the layout it is written in and the instant it names.
Format == "%Y-%m-%d %H:%M:%S"
Layouts == {Format, "invalid"}
TimeStrings == [layout : Layouts, instant : Times]

ValueError == "ValueError"

\* What a call gives: the value it returns, or the exception it raises.
Returns(v) == [raised |-> None, value |-> v]
Raises(e)  == [raised |-> e, value |-> None]

\* A parser that reads the instant out of any string.
parse_datetime_lenient(dt_str) == Returns(dt_str.instant)

\* utils/datetime_utils.py, lines 22-28: strptime with the one layout; any
\* other string raises ValueError.
parse_datetime(dt_str) ==
    IF dt_str.layout = Format THEN Returns(dt_str.instant)
    ELSE Raises(ValueError)

\* add_task, lines 38-67, from the caller's string.  Line 42 parses before
\* the lock is taken; the exception leaves add_task there, and the caller
\* gets it.
AddCall(cn, dt_str) ==
    LET dt == parse_datetime(dt_str)
    IN  IF dt.raised # None
        THEN /\ add_result' = dt.raised
             /\ UNCHANGED <<scheduled_tasks, task_queue, is_running,
                            file_lock, schedVars, sweepVars, callers_to_save,
                            track_saves, save_threads, file, apiVars, now,
                            oracle_canceled, oracle_failing, probe_started, lifecycle, loop_threads,
                            round_trip,
                            histVars>>
        ELSE AddTask(cn, dt.value)

\* The callers of add_task and remove_task beside the scheduling loop, the
\* other holder of the lock that add_task takes.
InputNext ==
    \/ Start
    \/ \E cn \in Ids, dt_str \in TimeStrings : AddCall(cn, dt_str)
    \/ \E cn \in Ids : RemoveTask(cn)
    \/ \E cn \in Ids : RemoveAbsent(cn)
    \/ Tick
    \/ SchedIdle
    \/ SchedWait
    \/ SchedPeek
    \/ SchedGet
    \/ SchedStale
    \/ SchedLock
    \/ SchedFire
    \/ SchedSkip

InputSpec == Init /\ [][InputNext]_vars

\* =========================================================================
\* The live API engine: TaskStore (api/app.py), TaskScheduler
\* (services/scheduler.py) and the routes (api/routes.py)
\* =========================================================================
\* TaskStore.tasks is store_tasks, TaskScheduler.task_queue is api_queue.
\* The route handlers run on the event loop, one at a time; the scheduler
\* loop runs on its own thread and shares TaskStore.tasks with them without
\* any lock.
tmVars == <<scheduled_tasks, task_queue, is_running, file_lock, schedVars,
            sweepVars, callers_to_save, track_saves, file, envVars>>

\* create_app's startup event: scheduler.start().  The queue starts empty:
\* tasks loaded from the file go to the TaskStore only.
ApiStartup ==
    /\ ~ api_running
    /\ api_running' = TRUE
    /\ api_pc' = "loop"
    /\ chk_pc' = "sleep"
    /\ UNCHANGED <<tmVars, chk_numbers, post_result, save_threads, store_tasks, api_queue,
                   api_change_number, api_task, post_pending,
                   now, histVars>>

\* TaskStore.get
StoreGet(tasks, cn) == DictGet(tasks, cn)

\* TaskStore.remove: the dict after the call.
StoreRemove(tasks, cn) == DictDel(tasks, cn)

\* A validator that lets the present instant through.
is_future_datetime_or_now(t) == t >= now

\* utils/datetime_utils.py, lines 30-33: dt > utcnow().
is_future_datetime(t) == t > now

\* POST /schedule, up to task_store.add(task).
ApiPostStore(cn, t) ==
    /\ post_pending = None
    /\ NumAdds < MaxAdds
    /\ is_future_datetime(t)
    /\ LET task == [change_number |-> cn, implementation_time |-> t,
                    inst |-> NumAdds + 1,
                    resched |-> /\ cn \in Keys(store_tasks)
                                /\ StoreGet(store_tasks, cn).implementation_time < t,
                    skipped |-> FALSE]
       IN  /\ store_tasks' = DictSet(store_tasks, task)
           /\ save_threads' = save_tasks(save_threads, store_tasks')
    /\ post_pending' = <<t, cn>>
    /\ post_result' = "201"
    /\ add_count' = [add_count EXCEPT ![cn] = @ + 1]
    /\ UNCHANGED <<tmVars, chkVars, api_queue, api_running, api_pc,
                   api_change_number, api_task, now, late_add, dispatched, executing,
                   last_executed, removed, evicted>>

\* POST /schedule with a time the validator of ScheduleChangeRequest
\* (api/models.py, lines 13-18) refuses: ValueError, the request is answered
\* 422 and schedule_change is not called.
ApiPostRejected(cn, t) ==
    /\ post_pending = None
    /\ ~ is_future_datetime(t)
    /\ post_result' = "422"
    /\ UNCHANGED <<tmVars, chkVars, save_threads, store_tasks, api_queue, api_running,
                   api_pc, api_change_number, api_task, post_pending, now,
                   histVars>>

\* POST /schedule, scheduler.add_task(change_number, implementation_time).
ApiPostQueue ==
    /\ post_pending # None
    /\ api_queue' = QueuePut(api_queue, post_pending)
    /\ post_pending' = None
    /\ UNCHANGED <<tmVars, chkVars, post_result, save_threads, store_tasks, api_running, api_pc,
                   api_change_number, api_task, now, histVars>>

\* DELETE /schedule/{change_number} for an id that is in the store:
\* task_store.remove returns True and the answer is 204.
ApiDelete(cn) ==
    /\ post_pending = None
    /\ StoreGet(store_tasks, cn) # NoTask
    /\ store_tasks' = StoreRemove(store_tasks, cn)
    /\ save_threads' = save_tasks(save_threads, store_tasks')
    /\ removed' = removed \cup {StoreGet(store_tasks, cn).inst}
    /\ UNCHANGED <<tmVars, chkVars, post_result, api_queue, api_running, api_pc,
                   api_change_number, api_task, post_pending, now, add_count,
                   late_add, dispatched, executing, last_executed, evicted>>

\* DELETE /schedule/{change_number} for an id that is not in the store: 404.
ApiDeleteNotFound(cn) ==
    /\ post_pending = None
    /\ StoreGet(store_tasks, cn) = NoTask
    /\ UNCHANGED vars

\* TaskScheduler._scheduler_loop, lines 79-83 and 105-109: nothing is due.
ApiWait ==
    /\ api_pc = "loop"
    /\ \/ api_queue = <<>>
       \/ /\ api_queue # <<>>
          /\ Head(api_queue)[1] > now
    /\ UNCHANGED vars

\* Lines 82-86: the head of the queue is due.
ApiPeek ==
    /\ api_pc = "loop"
    /\ api_queue # <<>>
    /\ Head(api_queue)[1] <= now
    /\ api_change_number' = Head(api_queue)[2]
    /\ api_pc' = "get"
    /\ UNCHANGED <<tmVars, chkVars, post_result, save_threads, store_tasks, api_queue, api_running,
                   api_task, post_pending, now, histVars>>

\* Line 88: task_queue.get() takes whatever is the head by now.
ApiGet ==
    /\ api_pc = "get"
    /\ api_queue' = Tail(api_queue)
    /\ api_pc' = "lookup"
    /\ UNCHANGED <<tmVars, chkVars, post_result, save_threads, store_tasks, api_running,
                   api_change_number, api_task, post_pending,
                   now, histVars>>

\* Lines 91-92: the task is read from the store; the loop keeps the object.
ApiLookup ==
    /\ api_pc = "lookup"
    /\ api_task' = StoreGet(store_tasks, api_change_number)
    /\ IF api_task' = NoTask
       THEN /\ api_pc' = "loop"
            /\ api_change_number' = None
       ELSE /\ api_pc' = "check"
            /\ UNCHANGED api_change_number
    /\ UNCHANGED <<tmVars, chkVars, post_result, save_threads, store_tasks, api_queue, api_running,
                   post_pending, now, histVars>>

\* Lines 94-99: the oracle answers something other than "canceled" and the
\* loop starts the execution thread with the task it read at line 91.
ApiFire ==
    /\ api_pc = "check"
    /\ \E resp \in Responses : ShouldExecute(check_change_status(resp))
    /\ dispatched' = dispatched \cup {api_task.inst}
    /\ executing' = executing \cup {Fields(api_task)}
    /\ last_executed' = api_task
    /\ api_pc' = "remove"
    /\ UNCHANGED <<tmVars, chkVars, post_result, save_threads, store_tasks, api_queue, api_running,
                   api_change_number, api_task, post_pending,
                   now, add_count, late_add, removed, evicted>>

\* Line 102: task_store.remove(change_number), whatever is stored under the
\* id by now.
ApiRemove ==
    /\ api_pc = "remove"
    /\ store_tasks' = StoreRemove(store_tasks, api_change_number)
    /\ save_threads' = IF StoreGet(store_tasks, api_change_number) # NoTask
                       THEN save_tasks(save_threads, store_tasks')
                       ELSE save_threads
    /\ api_pc' = "loop"
    /\ api_change_number' = None
    /\ api_task' = NoTask
    /\ UNCHANGED <<tmVars, chkVars, post_result, api_queue, api_running, post_pending, now,
                   histVars>>

\* Lines 94-97 and 103-104: the oracle answers "canceled"; the loop logs.
ApiSkip ==
    /\ api_pc = "check"
    /\ \E resp \in Responses : ~ ShouldExecute(check_change_status(resp))
    /\ api_pc' = "loop"
    /\ api_change_number' = None
    /\ api_task' = NoTask
    /\ UNCHANGED <<tmVars, chkVars, post_result, save_threads, store_tasks, api_queue, api_running,
                   post_pending, now, histVars>>

\* ------------------------------------------ services/status_checker.py
\* StatusChecker._checker_loop, lines 66-78: the sleep is over, the ids of
\* the store are copied; with no id the loop goes back to sleep.
ChkSnapshot ==
    /\ chk_pc = "sleep"
    /\ LET change_numbers == KeyList(store_tasks)
       IN  IF change_numbers = <<>>
           THEN UNCHANGED <<chk_pc, chk_numbers>>
           ELSE /\ chk_numbers' = change_numbers
                /\ chk_pc' = "check"
    /\ UNCHANGED <<tmVars, post_result, save_threads, store_tasks, api_queue,
                   api_running, api_pc, api_change_number, api_task,
                   post_pending, now, histVars>>

\* Lines 83-89: one turn of the for loop: the oracle is asked about the next
\* id of the snapshot; on "canceled" task_store.remove deletes the id at once
\* and, the id being there, saves (api/app.py, lines 34-40).
ChkCheck ==
    /\ chk_pc = "check"
    /\ LET change_number_ == Head(chk_numbers)
           task == StoreGet(store_tasks, change_number_)
       IN  \E resp \in Responses :
             IF check_change_status(resp) = "canceled"
             THEN /\ store_tasks' = StoreRemove(store_tasks, change_number_)
                  /\ save_threads' = IF task # NoTask
                                     THEN save_tasks(save_threads, store_tasks')
                                     ELSE save_threads
                  /\ evicted' = IF task # NoTask
                                THEN evicted \cup {task.inst}
                                ELSE evicted
             ELSE UNCHANGED <<store_tasks, save_threads, evicted>>
    /\ chk_numbers' = Tail(chk_numbers)
    /\ chk_pc' = IF Tail(chk_numbers) = <<>> THEN "sleep" ELSE "check"
    /\ UNCHANGED <<tmVars, post_result, api_queue, api_running, api_pc,
                   api_change_number, api_task, post_pending, now,
                   add_count, late_add, dispatched, executing, last_executed, removed>>

\* The service with its requests and its status checker.
CheckerNext ==
    \/ ApiStartup
    \/ \E cn \in Ids : \E t \in Times : ApiPostStore(cn, t)
    \/ ApiPostQueue
    \/ \E cn \in Ids : ApiDelete(cn)
    \/ Tick
    \/ ChkSnapshot
    \/ ChkCheck

CheckerSpec == Init /\ [][CheckerNext]_vars

\* GET /health, api/routes.py, lines 107-134: tasks_count is the size of the
\* store; next_task is read from the head of the scheduler's queue and is
\* null (NoTask) when the store or the queue is empty or the head's id is
\* not in the store.  The handler changes nothing.
health_check ==
    LET task_count == Len(store_tasks)
        head == Head(api_queue)
        task == StoreGet(store_tasks, head[2])
    IN  [tasks_count |-> task_count,
         scheduler_running |-> api_running,
         next_task |->
             IF task_count > 0 /\ api_queue # <<>> /\ task # NoTask
             THEN [change_number |-> head[2],
                   implementation_time |-> task.implementation_time]
             ELSE [change_number |-> NoTask.change_number,
                   implementation_time |-> NoTask.implementation_time]]

ApiNext ==
    \/ ApiStartup
    \/ \E cn \in Ids : \E t \in Times : ApiPostStore(cn, t)
    \/ \E cn \in Ids : \E t \in Times : ApiPostRejected(cn, t)
    \/ ApiPostQueue
    \/ \E cn \in Ids : ApiDelete(cn)
    \/ \E cn \in Ids : ApiDeleteNotFound(cn)
    \/ Tick
    \/ ApiWait
    \/ ApiPeek
    \/ ApiGet
    \/ ApiLookup
    \/ ApiFire
    \/ ApiRemove
    \/ ApiSkip

ApiSpec == Init /\ [][ApiNext]_vars

\* ------------------------------------------------ the service after a restart
\* A test no change_number passes.
TruthyNever(cn) == FALSE

\* core/storage.py, line 28: `if change_number:`.  0 stands for a missing or
\* empty change_number, as in NoTask.
Truthy(cn) == cn # NoTask.change_number

\* load_tasks, lines 26-29: the records of the list, in order, each stored
\* under its change_number.
RECURSIVE LoadInto(_, _)
LoadInto(tasks, tasks_data) ==
    IF tasks_data = <<>> THEN tasks
    ELSE LET task == Head(tasks_data)
         IN  LoadInto(IF Truthy(task.change_number)
                      THEN DictSet(tasks, task) ELSE tasks,
                      Tail(tasks_data))

\* load_tasks, lines 13-34; a missing file and an unreadable one give {}.
load_tasks(tasks_data) == LoadInto(<<>>, tasks_data)

\* A record as an earlier run of the service saved it.
Persisted(cn, t, i) ==
    [change_number |-> cn, implementation_time |-> t, inst |-> i,
     resched |-> FALSE, skipped |-> FALSE]

\* The files an earlier run can have left: no record, one, or one for each
\* of two ids.
PersistedFiles ==
    {<<>>}
    \cup {<<Persisted(cn, t, 1)>> : cn \in Ids, t \in Times}
    \cup {<<Persisted(c[1], t[1], 1), Persisted(c[2], t[2], 2)>> :
            c \in {d \in Ids \X Ids : d[1] # d[2]}, t \in Times \X Times}

\* create_app, lines 74-86: the records of the file go to the TaskStore; the
\* TaskScheduler is built with an empty queue.
InitLoaded ==
    /\ file \in PersistedFiles
    /\ store_tasks = load_tasks(file)
    /\ api_queue = <<>>
    /\ add_count = [cn \in Ids |-> IF cn \in Keys(load_tasks(file))
                                   THEN 1 ELSE 0]
    /\ track_saves = FALSE
    /\ scheduled_tasks = <<>>
    /\ task_queue = <<>>
    /\ is_running = FALSE
    /\ file_lock = "free"
    /\ sched_pc = "none"
    /\ change_number = None
    /\ status = None
    /\ response = None
    /\ sweep_pc = "none"
    /\ changes_to_remove = <<>>
    /\ callers_to_save = 0
    /\ save_threads = EmptyBag
    /\ api_running = FALSE
    /\ api_pc = "none"
    /\ chk_pc = "none"
    /\ chk_numbers = <<>>
    /\ api_change_number = None
    /\ api_task = NoTask
    /\ post_pending = None
    /\ post_result = None
    /\ now = 0
    /\ oracle_canceled = {}
    /\ oracle_failing = {}
    /\ add_result = None
    /\ probe_started = {}
    /\ lifecycle = [call |-> None, threads |-> 0]
    /\ loop_threads = [th \in LoopThreads |-> 0]
    /\ round_trip = [saved |-> <<>>, loaded |-> FALSE]
    /\ late_add = FALSE
    /\ dispatched = {}
    /\ executing = {}
    /\ last_executed = NoTask
    /\ removed = {}
    /\ evicted = {}

LoadSpec == InitLoaded /\ [][ApiNext]_vars

\* ------------------------------------------------ the storage round trip
\* A record as the tests of core/storage.py write it; its change_number may
\* be missing or empty (0).
Records == {Persisted(cn, t, 1) :
              cn \in Ids \cup {NoTask.change_number}, t \in Times}

\* The keys a mapping can have.
MapKeys == Ids \cup {NoTask.change_number}

\* The mappings of id to record, as sequences of <<key, record>> in the
\* order of insertion: no key twice.
Mappings ==
    {S \in UNION {[1..n -> MapKeys \X Records] :
                    n \in 0..Cardinality(MapKeys)} :
       \A i, j \in DOMAIN S : S[i][1] = S[j][1] => i = j}

\* storage.py, line 39: list(tasks.values()); the keys are not written.
Values(S) == [i \in DOMAIN S |-> S[i][2]]

\* A dictionary of the model, keyed by its records' change_number, as a
\* mapping with its keys.
AsMapping(tasks) ==
    [i \in DOMAIN tasks |-> <<tasks[i].change_number, tasks[i]>>]

\* dict equality: the same keys with the same records, in any order.
SameMapping(S, T) ==
    /\ Len(S) = Len(T)
    /\ {S[i] : i \in DOMAIN S} = {T[i] : i \in DOMAIN T}

\* test_save_tasks: save_tasks(S) in an empty data directory.  json.dump
\* writes the records, whose keys and values are strings, as they are.
RtSave(S) ==
    /\ round_trip.saved = <<>> /\ file = <<>> /\ save_threads = EmptyBag
    /\ round_trip' = [round_trip EXCEPT !.saved = S]
    /\ save_threads' = SetToBag({Values(S)})
    /\ UNCHANGED <<apiVars, oracle_canceled, oracle_failing, callVars, lifecycle, loop_threads,
                   track_saves, scheduled_tasks, task_queue, is_running,
                   file_lock, schedVars, sweepVars, callers_to_save, file,
                   now, histVars>>

\* load_tasks() as create_app calls it: the result becomes TaskStore.tasks.
RtLoad ==
    /\ store_tasks' = load_tasks(file)
    /\ round_trip' = [round_trip EXCEPT !.loaded = TRUE]
    /\ UNCHANGED <<scheduled_tasks, task_queue, is_running, file_lock,
                   schedVars, sweepVars, callers_to_save, track_saves, file,
                   oracle_canceled, oracle_failing, callVars, lifecycle, loop_threads, save_threads, api_queue, api_running, api_pc,
                   api_change_number, api_task, post_pending, post_result,
                   chkVars, now, histVars>>

RoundTripNext ==
    \/ \E S \in Mappings : RtSave(S)
    \/ SaveInThread
    \/ RtLoad

RoundTripSpec == InitStorage /\ [][RoundTripNext]_vars

\* =========================================================================
\* Properties of the TaskManager engine (Spec)
\* =========================================================================
Range(q) == {q[i] : i \in DOMAIN q}

PendingTasks == Range(scheduled_tasks)

Readded == \E cn \in Ids : add_count[cn] > 1

\* The task the scheduling loop is deciding on.
Candidate == DictGet(scheduled_tasks, change_number)

\* C1.  At-most-once dispatch: a task object handed to add_task is handed to
\* execute_task_async at most once, so between one add_task(id) and the next
\* the Executor runs at most once for the id: whenever the loop dispatches,
\* the task it dispatches has not been dispatched before.
C1_AtMostOnce ==
    [][SchedFire => Candidate.inst \notin dispatched]_vars

\* The loop has dispatched a rescheduled task (two queue entries for its id)
\* and has now popped the id's other entry.
C1_Witness ==
    /\ sched_pc = "lock"
    /\ last_executed # NoTask
    /\ last_executed.resched
    /\ last_executed.change_number = change_number
    /\ last_executed.inst \in dispatched
    /\ change_number \notin Keys(scheduled_tasks)

\* C2.  Cancellation precedence: a task for which the scheduling loop got
\* "canceled" from the oracle is not handed to the Executor, in that iteration
\* or in a later one.
C2_CancellationPrecedence ==
    last_executed # NoTask => ~ last_executed.skipped

\* C3.  Reschedule overwrite: a task that add_task moved to a later time is
\* not handed to the Executor before that time.
C3_NoEarlyExecution ==
    (last_executed # NoTask /\ last_executed.resched)
        => last_executed.implementation_time <= now

\* C4 as stated.  Due order: with every id added once, each dispatch is of a
\* task due no earlier than the task dispatched before it.
C4_DueOrder ==
    [][(SchedFire /\ ~ Readded /\ last_executed # NoTask)
         => last_executed.implementation_time
              <= Candidate.implementation_time]_vars

\* C4 amended.  Due order, for tasks that are each added once and before
\* their time has come: each dispatch is of a task due no earlier than the
\* task dispatched before it.
C4_DueOrderOnTime ==
    [][(SchedFire /\ ~ Readded /\ ~ late_add /\ last_executed # NoTask)
         => last_executed.implementation_time
              <= Candidate.implementation_time]_vars

\* Two tasks with different times, both added on time, have been dispatched.
C4_Witness ==
    /\ ~ Readded /\ ~ late_add
    /\ Cardinality(dispatched) = 2
    /\ task_queue = <<>>
    /\ last_executed.implementation_time = 2


\* The ids the sweep has collected for removal.
Collected == Range(changes_to_remove)

C6_ExplicitCancel ==
    /\ removed \cap dispatched = {}
    /\ \A t \in PendingTasks : t.inst \notin removed

\* The id's only task has been removed, and the loop has popped its queue
\* entry and is about to look the id up.
C6_Witness ==
    /\ sched_pc = "lock"
    /\ add_count[change_number] = 1
    /\ removed # {}
    /\ DictGet(scheduled_tasks, change_number) = NoTask
    /\ dispatched = {} /\ evicted = {}

\* C8.  Once the scheduling loop has got "canceled" for a pending id and has
\* finished the iteration, the id is no longer in the Pending Set.
C8_CanceledIsRemoved ==
    \A t \in PendingTasks : ~ t.skipped

\* What the oracle answers when it does not answer "canceled".
NotCanceled(resp) == ~ (resp.kind = "ok" /\ resp.status = "canceled")

\* C9.  Fail-open at due time: when the oracle's answer for the popped, pending
\* id is anything but "canceled" (another status, no status, a non-200
\* response, a failed request), the loop's next step deletes the task from the
\* Pending Set and hands it to the Executor.
C9_FailOpen ==
    [][(sched_pc = "decide" /\ sched_pc' # "decide" /\ NotCanceled(response))
         => /\ Candidate # NoTask
            /\ Candidate \notin Range(scheduled_tasks')
            /\ change_number \notin Keys(scheduled_tasks')
            /\ last_executed' = Candidate
            /\ Candidate.inst \in dispatched'
            /\ file_lock' = "free"]_vars

\* The request to the oracle failed for a pending task that is due, and the
\* loop is about to act on that.
C9_Witness ==
    /\ sched_pc = "decide"
    /\ response.kind = "exception"
    /\ status = None
    /\ Candidate # NoTask
    /\ Candidate.implementation_time <= now

\* C10.  Eventual execution, on a run's last state: there is no state in
\* which a task that was added once, is due, and was never skipped, removed
\* or evicted is still pending while the queue is empty and both loops are
\* between iterations (from there on the loop only sleeps, and the task is
\* never dispatched unless it is added again).
C10_EventuallyExecuted ==
    ~ /\ is_running
      /\ sched_pc = "loop"
      /\ sweep_pc = "sleep"
      /\ task_queue = <<>>
      /\ \E t \in PendingTasks :
            /\ add_count[t.change_number] = 1
            /\ t.implementation_time <= now
            /\ ~ t.skipped


\* How many entries of the queue q are the entry e.
CountIn(q, e) == Cardinality({i \in DOMAIN q : q[i] = e})

\* C12.  add/get/list: right after add_task(task), get_task(task.id) is that
\* task, the dict holds one record for the id (an id that was pending keeps
\* its place: it is overwritten), the queue holds one more (due_time, id)
\* entry and is otherwise the same, and get_all_tasks has one record per
\* pending id.
C12_AddGetList ==
    [][\A cn \in Ids : \A t \in Times :
         AddTask(cn, t) =>
           /\ DictGet(scheduled_tasks', cn) = NewTask(cn, t)
           /\ Cardinality({i \in DOMAIN scheduled_tasks' :
                             scheduled_tasks'[i].change_number = cn}) = 1
           /\ (cn \in Keys(scheduled_tasks)
                 => KeyList(scheduled_tasks') = KeyList(scheduled_tasks))
           /\ Len(task_queue') = Len(task_queue) + 1
           /\ \A e \in Range(task_queue') :
                CountIn(task_queue', e) =
                  CountIn(task_queue, e) + (IF e = <<t, cn>> THEN 1 ELSE 0)
           /\ Len(scheduled_tasks') = Cardinality(Keys(scheduled_tasks'))]_vars

\* An id was added again while it was pending: one record, two queue entries.
C12_Witness ==
    \E t \in PendingTasks :
        /\ add_count[t.change_number] = 2
        /\ t.resched
        /\ Len(scheduled_tasks) = 1
        /\ Len(task_queue) = 2
        /\ removed = {} /\ dispatched = {} /\ evicted = {}

\* C13.  Eviction idempotence: remove_task never modifies the queue; for an
\* id that is not pending it deletes nothing, records no removal (it returns
\* False) and goes on to no save; for a pending id it deletes the id.
C13_RemoveIdempotent ==
    [][\A cn \in Ids :
         (RemoveTask(cn) \/ RemoveAbsent(cn)) =>
           /\ task_queue' = task_queue
           /\ IF cn \in Keys(scheduled_tasks)
              THEN cn \notin Keys(scheduled_tasks')
              ELSE /\ scheduled_tasks' = scheduled_tasks
                   /\ removed' = removed
                   /\ callers_to_save' = callers_to_save
                   /\ save_threads' = save_threads]_vars

\* Every id that was added is gone again (one of them by remove_task), the
\* queue still holds an entry, and the clock has not reached it: remove_task
\* of the removed id finds it absent.
C13_Witness ==
    /\ removed # {}
    /\ scheduled_tasks = <<>>
    /\ task_queue # <<>>
    /\ file_lock = "free"
    /\ is_running

\* C19.  The lock is never held across an outbound call: while the
\* scheduling loop's check_change_status call is under way (sched_pc is
\* "decide") the lock is free.
C19_NoLockAcrossCalls ==
    sched_pc = "decide" => file_lock = "free"

\* C20.  Every read and write of the queue happens under the engine lock:
\* the step that peeks at the head of the queue (the loop goes from "loop"
\* to "get") and the step that pops it (from "get" to "lock") are taken by a
\* thread that holds the lock.
C20_QueueUnderLock ==
    [][(\/ sched_pc = "loop" /\ sched_pc' = "get"
        \/ sched_pc = "get" /\ sched_pc' = "lock")
       => file_lock = "sched"]_vars

\* C30.  Peek/pop atomicity: the entry the scheduling loop removes from the
\* queue (its step from "get" to "lock") is the entry of the id it peeked
\* at and goes on to process.
C30_PopIsPeeked ==
    [][(sched_pc = "get" /\ sched_pc' = "lock") =>
          Head(task_queue)[2] = change_number]_vars

\* C32.  Between the iterations of the scheduling loop, with the lock free,
\* every pending task has an entry in the queue with its id and its due
\* time.
C32_PendingIsQueued ==
    (sched_pc \in {"none", "loop"} /\ file_lock = "free") =>
        \A t \in PendingTasks :
            \E k \in DOMAIN task_queue :
                task_queue[k] = <<t.implementation_time, t.change_number>>

\* =========================================================================
\* Properties of the live API engine (ApiSpec)
\* =========================================================================
\* C7.  Explicit cancel in the live API engine: the task the scheduler loop
\* hands to the execution thread is never one that a DELETE has already
\* removed from the store.
C7_ExplicitCancelApi ==
    [][ApiFire => api_task.inst \notin removed]_vars

\* C15.  A POST /schedule whose implementation time is not strictly later
\* than now (earlier, or equal to now) is answered 422 and leaves the task
\* store and the scheduler queue as they were: nothing is stored, nothing is
\* on its way to the queue, nothing is saved.
C15_PastTimeRejected ==
    [][\A cn \in Ids : \A t \in Times :
         ((ApiPostStore(cn, t) \/ ApiPostRejected(cn, t)) /\ t <= now) =>
           /\ post_result' = "422"
           /\ UNCHANGED <<store_tasks, api_queue, post_pending,
                          save_threads, add_count>>]_vars

\* The clock stands at 1 and the latest POST was refused: its time was 1,
\* the present instant, the only time of Times that is not later than now.
\* An earlier POST is in the store and in the queue.
C15_Witness ==
    /\ post_result = "422"
    /\ now = 1
    /\ Len(store_tasks) = 1
    /\ Len(api_queue) = 1
    /\ post_pending = None

\* C21.  Removal before dispatch in the live API engine: when the scheduler
\* loop starts the execution thread for a task, the task's id is no longer
\* in the store.
C21_RemovedBeforeDispatch ==
    [][ApiFire => api_task.change_number \notin Keys(store_tasks')]_vars

\* C25.  Health introspection: between requests and between iterations of
\* the scheduling loop, whenever a task is pending GET /health reports a
\* next_task that names the pending task with the earliest due time, and
\* tasks_count is the number of pending tasks.
C25_HealthNextTask ==
    (post_pending = None /\ api_pc = "loop" /\ store_tasks # <<>>) =>
        /\ health_check.tasks_count = Cardinality(Keys(store_tasks))
        /\ health_check.next_task.change_number \in Keys(store_tasks)
        /\ \A i \in DOMAIN store_tasks :
               /\ health_check.next_task.implementation_time
                      <= store_tasks[i].implementation_time
               /\ store_tasks[i].change_number
                      = health_check.next_task.change_number =>
                  store_tasks[i].implementation_time
                      = health_check.next_task.implementation_time

\* =========================================================================
\* Properties of the service with its status checker (CheckerSpec)
\* =========================================================================

\* C28.  Sweep batching: while the sweep still has ids of its snapshot to
\* ask about, it removes no id: the removals come after the last id has
\* been queried.
C28_SweepBatching ==
    [][(/\ chk_pc = "check" /\ chk_numbers' # chk_numbers
        /\ Keys(store_tasks') # Keys(store_tasks)) =>
          chk_numbers' = <<>>]_vars

\* =========================================================================
\* Properties of the service after a restart (LoadSpec)
\* =========================================================================

\* C23.  Startup load: when the startup event has run, the store holds every
\* loaded record and the scheduler's queue holds a (time, id) entry for each
\* of them.
C23_LoadedAreQueued ==
    [][ApiStartup =>
         /\ store_tasks' = load_tasks(file)
         /\ \A i \in DOMAIN store_tasks' :
              \E k \in DOMAIN api_queue' :
                 api_queue'[k] = <<store_tasks'[i].implementation_time,
                                   store_tasks'[i].change_number>>]_vars

\* =========================================================================
\* Properties of the engine with the remembering oracle (OracleSpec)
\* =========================================================================
\* C11.  Sweep eviction.  (a) A sweep collects every pending id that the
\* oracle had canceled when the sweep started; (b) when the sweep completes,
\* no collected id is pending; (c) the Executor is never invoked for a
\* pending task that is canceled and not yet due.
C11_SweepEviction ==
    /\ [][(sweep_pc = "sleep" /\ sweep_pc' = "remove")
            => \A t \in PendingTasks :
                 t.change_number \in oracle_canceled
                   => t.change_number \in Range(changes_to_remove')]_vars
    /\ [][(sweep_pc = "remove" /\ sweep_pc' = "sleep")
            => \A cn \in Collected : cn \notin Keys(scheduled_tasks')]_vars
    /\ [][SchedFire
            => ~ (/\ change_number \in oracle_canceled
                  /\ Candidate.implementation_time > now)]_vars


\* =========================================================================
\* Properties of add_task on the caller's string (InputSpec)
\* =========================================================================

\* C14.  Malformed input: an add_task call whose implementation_time is not
\* written in the layout of Format raises ValueError to its caller and
\* changes nothing: the dictionary, the queue, the pending saves and the file
\* are as before, no initial status thread is started and no add is counted.
C14_MalformedAdd ==
    [][\A cn \in Ids : \A dt_str \in TimeStrings :
         (AddCall(cn, dt_str) /\ dt_str.layout # Format) =>
           /\ add_result' = ValueError
           /\ UNCHANGED <<scheduled_tasks, task_queue, callers_to_save,
                          save_threads, file, probe_started, add_count,
                          file_lock>>]_vars

\* One add_task went through and the latest one raised ValueError: there is
\* one pending task, one queue entry, one status thread.
C14_Witness ==
    /\ add_result = ValueError
    /\ NumAdds = 1
    /\ Len(scheduled_tasks) = 1
    /\ Len(task_queue) = 1
    /\ Cardinality(probe_started) = 1
    /\ is_running

\* =========================================================================
\* Properties of the engine with start() and stop() (LifeSpec)
\* =========================================================================

\* C16.  start()/stop() idempotence: a start() call on a running engine and
\* a stop() call on a stopped one change nothing at all: no flag, no thread
\* created or joined, no position of a loop.
C16_StartStopIdempotent ==
    [][/\ ((Start \/ StartAgain) /\ is_running) => UNCHANGED vars
       /\ ((Stop \/ StopAgain) /\ ~ is_running) => UNCHANGED vars]_vars

\* A started engine with both loops in the middle of an iteration: start()
\* here returns at line 120.
C16_Witness ==
    /\ is_running
    /\ lifecycle = [call |-> "start", threads |-> 2]
    /\ sched_pc = "decide"
    /\ sweep_pc = "remove"

\* C17.  Graceful stop: while the flag stays cleared, a loop that is at its
\* iteration boundary is free to return and can do nothing else, and a loop
\* that has returned stays so: no iteration begins after stop(), so whatever
\* is dispatched or removed after stop() belongs to an iteration that began
\* before it.
C17_GracefulStop ==
    [][(~ is_running /\ ~ is_running') =>
         /\ sched_pc = "loop" => /\ sched_pc' \in {"loop", "none"}
                                 /\ ENABLED SchedExit
         /\ sched_pc = "none" => sched_pc' = "none"
         /\ sweep_pc = "sleep" => /\ sweep_pc' \in {"sleep", "none"}
                                  /\ ENABLED SweepExit
         /\ sweep_pc = "none" => sweep_pc' = "none"]_vars

\* stop() joined two live threads, both loops have returned since, and a
\* due entry is still in the queue with its task pending: it is not
\* dispatched.
C17_Witness ==
    /\ ~ is_running
    /\ lifecycle = [call |-> "stop", threads |-> 2]
    /\ LoopsGone
    /\ task_queue # <<>>
    /\ Head(task_queue)[1] <= now
    /\ Head(task_queue)[2] \in Keys(scheduled_tasks)

\* =========================================================================
\* Properties of start() and stop() with the loops' threads (ThreadSpec)
\* =========================================================================

\* C33.  At most one thread runs the scheduling loop and at most one runs
\* the sweep.
C33_OneThreadPerLoop ==
    \A th \in LoopThreads : loop_threads[th] <= 1

\* =========================================================================
\* Properties of the engine with failing iterations (FaultSpec)
\* =========================================================================

\* C18.  Loop survival: while the engine is running both loops are alive,
\* whatever has been raised inside their iterations; a loop that is back at
\* its boundary holds no lock and none of the iteration's locals.
C18_LoopSurvival ==
    /\ is_running => (sched_pc # "none" /\ sweep_pc # "none")
    /\ sched_pc = "loop" => (file_lock = "free" /\ change_number = None)
    /\ sweep_pc = "sleep" => changes_to_remove = <<>>

\* A task that was added once is neither pending nor dispatched, removed or
\* evicted: the iteration that deleted it failed before the dispatch.  Both
\* loops are at their boundary and the engine runs.
C18_Witness ==
    /\ is_running
    /\ sched_pc = "loop"
    /\ sweep_pc = "sleep"
    /\ NumAdds = 1
    /\ scheduled_tasks = <<>>
    /\ dispatched = {}
    /\ removed = {}
    /\ evicted = {}

\* =========================================================================
\* Properties of the engine with its saves (SaveSpec)
\* =========================================================================
Insts(tasks) == {tasks[i].inst : i \in DOMAIN tasks}

\* C22.  Every step that changes which task instances are pending either
\* sends its caller on to save_tasks or starts a save thread with the
\* dictionary as the step leaves it; the save thread started by a retirement
\* holds the dictionary after the delete, without the dispatched instance.
C22_SaveFollowsMutation ==
    [][/\ Insts(scheduled_tasks') # Insts(scheduled_tasks) =>
            \/ callers_to_save' = callers_to_save + 1
            \/ save_threads' = save_threads (+) SetToBag({scheduled_tasks'})
       /\ CallerSave =>
            save_threads' = save_threads (+) SetToBag({scheduled_tasks})
       /\ SchedFire =>
            /\ save_threads' = save_threads (+) SetToBag({scheduled_tasks'})
            /\ last_executed'.inst \notin Insts(scheduled_tasks')]_vars

\* A task has been dispatched, another is pending, and the save thread the
\* retirement started is still running, with the pending task only.
C22_Witness ==
    /\ dispatched # {}
    /\ scheduled_tasks # <<>>
    /\ save_threads = SetToBag({scheduled_tasks})
    /\ last_executed.inst \in dispatched
    /\ sched_pc = "loop"

\* C27.  Lazy deletion: when the scheduling loop has popped a due entry and
\* finds its id absent from the dictionary, its step only ends the
\* iteration: the oracle is not asked, nothing is dispatched, no save is
\* requested or started, the file, the dictionary and the rest of the queue
\* are as before.
C27_LazyDeletion ==
    [][(/\ sched_pc = "lock" /\ sched_pc' # "lock"
        /\ change_number \notin Keys(scheduled_tasks)) =>
          /\ sched_pc' = "loop"
          /\ UNCHANGED <<scheduled_tasks, task_queue, status, response,
                         dispatched, last_executed, evicted, removed,
                         callers_to_save, save_threads, file,
                         file_lock>>]_vars

\* The loop has popped the entry of an id that remove_task took out while
\* another task is pending: it stands before the test of line 185.
C27_Witness ==
    /\ sched_pc = "lock"
    /\ change_number \notin Keys(scheduled_tasks)
    /\ scheduled_tasks # <<>>
    /\ removed # {}

\* =========================================================================
\* Properties of the callers' saves in any order (ConvergeSpec)
\* =========================================================================
\* The task dictionaries of a list of tasks.
Saved(tasks) == {Fields(tasks[i]) : i \in DOMAIN tasks}

\* C34.  Persistence converges: when no caller has a save_tasks call ahead
\* of it and every save thread has finished, the file holds the pending
\* tasks.
C34_PersistenceConverges ==
    (callers_to_save = 0 /\ save_threads = EmptyBag) =>
        Saved(file) = Saved(scheduled_tasks)

\* =========================================================================
\* Properties of the storage round trip (RoundTripSpec)
\* =========================================================================
\* Each record is stored under its own change_number, which is not empty.
WellKeyed(S) ==
    \A i \in DOMAIN S :
        /\ S[i][1] = S[i][2].change_number
        /\ S[i][1] \in Ids

\* C24.  Persistence round trip: when the write started by save_tasks(S) is
\* over and every record of S is stored under its own non-empty
\* change_number, load_tasks returns a mapping equal to S.
C24_RoundTrip ==
    [][(RtLoad /\ save_threads = EmptyBag /\ WellKeyed(round_trip.saved)) =>
          SameMapping(AsMapping(store_tasks'), round_trip.saved)]_vars

\* Two records were saved under their change_numbers, the write is over and
\* load_tasks has returned.
C24_Witness ==
    /\ Len(round_trip.saved) = 2
    /\ WellKeyed(round_trip.saved)
    /\ save_threads = EmptyBag
    /\ round_trip.loaded
    /\ Len(store_tasks) = 2

\* =========================================================================
\* Properties of the engine with its status threads (ProbeSpec)
\* =========================================================================

\* C26.  The status thread started by add_task is informational: whatever
\* the oracle answers, its run changes neither the dictionary nor the queue,
\* dispatches nothing and requests no save; add_task has returned its task
\* while the thread is still to run; of the callers, the status threads and
\* the scheduling loop, only the scheduling loop takes an id out of the
\* dictionary or dispatches a task.
C26_ProbeInformational ==
    [][/\ \A cn \in Ids :
            ProbeRun(cn) =>
                UNCHANGED <<scheduled_tasks, task_queue, dispatched,
                            last_executed, evicted, removed, save_threads,
                            callers_to_save, file, file_lock>>
       /\ \A cn \in Ids : \A t \in Times :
            AddTask(cn, t) => add_result' = "task" /\ cn \in probe_started'
       /\ ~ (Keys(scheduled_tasks) \subseteq Keys(scheduled_tasks')) =>
            sched_pc = "decide" /\ sched_pc' = "loop"
       /\ dispatched' # dispatched =>
            sched_pc = "decide" /\ sched_pc' = "loop"]_vars

\* The status thread of a pending task has run and ended; the task is still
\* pending and queued, nothing was dispatched.
C26_Witness ==
    /\ add_result = "task"
    /\ probe_started = {}
    /\ Len(scheduled_tasks) = 1
    /\ Len(task_queue) = 1
    /\ dispatched = {}
    /\ is_running

\* =========================================================================
\* Properties of the sweep with failing queries (FailSpec)
\* =========================================================================

\* C29.  Sweep fail-open: an id of the snapshot whose query fails is not
\* collected and stays pending in this cycle; every id of the snapshot whose
\* query answers "canceled" is collected, also behind an id whose query
\* failed, and the removal of the same cycle takes out the collected ids and
\* no other.
C29_SweepFailOpen ==
    [][/\ (sweep_pc = "sleep" /\ sweep_pc' = "remove") =>
            \A cn \in Keys(scheduled_tasks) :
                /\ cn \in oracle_failing =>
                       cn \notin Range(changes_to_remove')
                /\ (cn \notin oracle_failing /\ cn \in oracle_canceled) =>
                       cn \in Range(changes_to_remove')
       /\ (sweep_pc = "remove" /\ sweep_pc' = "sleep") =>
            \A cn \in Keys(scheduled_tasks) :
                cn \in Keys(scheduled_tasks') <=>
                    cn \notin Range(changes_to_remove)]_vars

\* A sweep is over: the task added first, whose query failed, is still
\* pending; the task added after it, canceled, was evicted.
C29_Witness ==
    /\ sweep_pc = "sleep"
    /\ Len(scheduled_tasks) = 1
    /\ scheduled_tasks[1].inst = 1
    /\ scheduled_tasks[1].change_number \in oracle_failing
    /\ evicted = {2}

\* =========================================================================
\* Properties of the engine with its execution threads (ExecSpec)
\* =========================================================================

\* C31.  Retirement regardless of outcome: the scheduling loop is back at
\* the top of its loop with the execution thread still to run; whatever the
\* request of that thread does, its run changes neither the dictionary nor
\* the queue, dispatches nothing and requests no save; and no dispatched
\* task is pending again.
C31_RetiredWhateverOutcome ==
    [][/\ \A task \in executing :
            ExecRun(task) =>
                UNCHANGED <<scheduled_tasks, task_queue, dispatched,
                            last_executed, save_threads, callers_to_save,
                            file, file_lock, sched_pc>>
       /\ dispatched' # dispatched =>
            /\ sched_pc' = "loop"
            /\ Fields(last_executed') \in executing'
       /\ Insts(scheduled_tasks') \cap dispatched' = {}]_vars

\* The execution thread of a dispatched task has ended while another task is
\* pending and queued.
C31_Witness ==
    /\ dispatched # {}
    /\ executing = {}
    /\ Len(scheduled_tasks) = 1
    /\ task_queue # <<>>

\* =========================================================================
\* Properties of the two locks (LockSpec)
\* =========================================================================

====
